---- MODULE Spec2Model ----
(***************************************************************************)
(* Model of the Adafruit_MPU6050 driver (src/Adafruit_MPU6050.cpp).        *)
(*                                                                         *)
(* State: the device's register file as seen over the bus, the driver      *)
(* object's fields (channel identifiers, raw sample, scaled sample), the   *)
(* position of the calling thread inside begin/_init and read, the bus     *)
(* transactions of the operation in progress, and the last completed call. *)
(*                                                                         *)
(* Scaled values are floats in the source; here each is the exact          *)
(* rational [n |-> numerator, d |-> denominator] the expression denotes,   *)
(* so the divisor that was applied stays visible.                          *)
(***************************************************************************)
EXTENDS Integers, Sequences, FiniteSets, TLC

VARIABLES
    regs,            \* device register file: register name -> byte
    i2c_dev,         \* "null" | "unbegun" | "ready"
    ids,             \* [accel, gyro, temp]: _sensorid_accel/_gyro/_temp
    raw,             \* rawAccX .. rawGyroZ (int16_t)
    scaled,          \* accX .. gyroZ, temperature (float)
    pc,              \* "idle" | "init_poll" | "read_scale"
    polls,           \* iterations of the reset-confirmation loop so far
    busLog,          \* the first thread's bus transactions in its current / last call
    last,            \* last call of the first thread: [op, arg, ret]
    prev,            \* history: the call before it: [op, arg], arg kept for
                     \* setAccelerometerRange only
    everRead,        \* history: read() has completed at least once
    sampled,         \* history: raw and scaled as left by the last read()
    initBase,        \* history: <<sensorID>> of the last _init that passed
                     \* the id check, << >> before any
    freshInit        \* history: _init succeeded and no range was set since

vars == <<regs, i2c_dev, ids, raw, scaled, pc, polls, busLog, last, prev,
          everRead, sampled, initBase, freshInit>>

----------------------------------------------------------------------------
(* Program constants *)

MPU6050_DEVICE_ID == 104

RESET_VALUE == 128

POST_RESET_VALUE == 64

GYRO_CONFIG_DEFAULT == 8

CLOCK_CONFIG == 1

MPU6050_RANGE_2_G == 0

MPU6050_RANGE_4_G == 1

MPU6050_RANGE_8_G == 2

MPU6050_RANGE_16_G == 3

RANGE_BITS == 2

RANGE_SHIFT == 3

INT32_MAX == 2147483647

Ranges == {MPU6050_RANGE_2_G, MPU6050_RANGE_4_G, MPU6050_RANGE_8_G,
           MPU6050_RANGE_16_G}

ConfigRegs == {"PWR_MGMT_1", "SMPLRT_DIV", "CONFIG", "GYRO_CONFIG",
               "ACCEL_CONFIG"}

RegNames == ConfigRegs \cup {"WHO_AM_I"}

----------------------------------------------------------------------------
(* Bounds and input sets *)

MaxPolls == 1

\* WHO_AM_I values of the chips that may answer at the address
ChipIds == {104, 112}

\* ACCEL_CONFIG bytes the device may hold before the driver touches it
AccelConfigInit == {0, 231}

\* base identifiers passed to begin
SensorIDs == {10, INT32_MAX - 1}

\* what an unset field of the object may hold
Indeterminate == {0, 21845}

\* 14-byte bursts the device may deliver
Buffers ==
    { <<64, 0, 255, 255, 128, 0, 207, 132, 0, 131, 255, 125, 127, 255>>,
      <<8, 0, 16, 0, 32, 0, 1, 84, 2, 143, 0, 0, 255, 255>> }

----------------------------------------------------------------------------
(* Helpers *)

Pow2(n) == IF n = 0 THEN 1 ELSE IF n = 1 THEN 2 ELSE IF n = 2 THEN 4
           ELSE IF n = 3 THEN 8 ELSE IF n = 4 THEN 16 ELSE 32

\* Adafruit_BusIO_RegisterBits::read: (val >> shift) & ((1 << bits) - 1)
BitsRead(val, bits, shift) == (val \div Pow2(shift)) % Pow2(bits)

\* Adafruit_BusIO_RegisterBits::write: val & ~(mask << shift) | (data & mask) << shift
BitsWrite(val, data, bits, shift) ==
    val - BitsRead(val, bits, shift) * Pow2(shift)
        + (data % Pow2(bits)) * Pow2(shift)

\* int16_t x = hi << 8 | lo
ToInt16(hi, lo) ==
    LET u == hi * 256 + lo IN IF u >= 32768 THEN u - 65536 ELSE u

\* variant: the offset is one too small
Add32_OffByOne(a, k) == {a + k - 1}

\* sensorID + k in int32_t; an overflowing sum is undefined, the builds
\* either wrap (a + k - 2^32, written so that no subterm leaves 32 bits) or
\* saturate
Add32(a, k) ==
    IF a <= INT32_MAX - k THEN {a + k}
    ELSE {(a - INT32_MAX) + (k - 1) + (-INT32_MAX - 1), INT32_MAX}

Rd(reg, v) == [k |-> "R", reg |-> reg, v |-> v, n |-> 1, cap |-> 0]

Wr(reg, v) == [k |-> "W", reg |-> reg, v |-> v, n |-> 1, cap |-> 0]

\* the 14-byte burst read; cap notes the range the device was in when it
\* delivered the data
Burst(cap) == [k |-> "R", reg |-> "ACCEL_OUT", v |-> 0, n |-> 14, cap |-> cap]

Rat(n, d) == [n |-> n, d |-> d]

RangeField(v) == BitsRead(v, RANGE_BITS, RANGE_SHIFT)

\* variant: the 16 g and 8 g divisors exchanged
ScaleOf_Swapped(range) ==
    IF range = MPU6050_RANGE_2_G THEN 16384
    ELSE IF range = MPU6050_RANGE_4_G THEN 8192
    ELSE IF range = MPU6050_RANGE_8_G THEN 2048
    ELSE 4096

ScaleOf(range) ==
    LET s0 == 1
        s1 == IF range = MPU6050_RANGE_16_G THEN 2048 ELSE s0
        s2 == IF range = MPU6050_RANGE_8_G THEN 4096 ELSE s1
        s3 == IF range = MPU6050_RANGE_4_G THEN 8192 ELSE s2
    IN  IF range = MPU6050_RANGE_2_G THEN 16384 ELSE s3

Decode(buffer) ==
    [rawAccX  |-> ToInt16(buffer[1], buffer[2]),
     rawAccY  |-> ToInt16(buffer[3], buffer[4]),
     rawAccZ  |-> ToInt16(buffer[5], buffer[6]),
     rawTemp  |-> ToInt16(buffer[7], buffer[8]),
     rawGyroX |-> ToInt16(buffer[9], buffer[10]),
     rawGyroY |-> ToInt16(buffer[11], buffer[12]),
     rawGyroZ |-> ToInt16(buffer[13], buffer[14])]

Scale(r, scale) ==
    [accX        |-> Rat(r.rawAccX, scale),
     accY        |-> Rat(r.rawAccY, scale),
     accZ        |-> Rat(r.rawAccZ, scale),
     temperature |-> Rat(r.rawTemp + 12412, 340),
     gyroX       |-> Rat(r.rawGyroX * 10, 655),
     gyroY       |-> Rat(r.rawGyroY * 10, 655),
     gyroZ       |-> Rat(r.rawGyroZ * 10, 655)]

\* variant: the g value is reported unconverted
Gravity_None(x) == x

\* x * SENSORS_GRAVITY_STANDARD (9.80665F): the product (n / d) * (gn / gd),
\* kept as its two factors because n * gn does not fit TLC's integers
Gravity(x) == [n |-> x.n, d |-> x.d, gn |-> 980665, gd |-> 100000]

SensorRecords ==
    [accel |-> [name |-> "MPU6050_A", version |-> 1, sensor_id |-> ids.accel,
                type |-> "ACCELEROMETER", min_delay |-> 0, max_value |-> 0,
                min_value |-> 0, resolution |-> 0],
     gyro  |-> [name |-> "MPU6050_G", version |-> 1, sensor_id |-> ids.gyro,
                type |-> "GYROSCOPE", min_delay |-> 0, max_value |-> 0,
                min_value |-> 0, resolution |-> 0],
     temp  |-> [name |-> "MPU6050_T", version |-> 1, sensor_id |-> ids.temp,
                type |-> "AMBIENT_TEMPERATURE", min_delay |-> 0, max_value |-> 0,
                min_value |-> 0, resolution |-> 0]]

EventRecords ==
    [accel |-> [sensor_id |-> ids.accel, type |-> "ACCELEROMETER",
                timestamp |-> 0,
                x |-> Gravity(scaled.accX), y |-> Gravity(scaled.accY),
                z |-> Gravity(scaled.accZ)],
     gyro  |-> [sensor_id |-> ids.gyro, type |-> "GYROSCOPE", timestamp |-> 0,
                x |-> scaled.gyroX, y |-> scaled.gyroY, z |-> scaled.gyroZ],
     temp  |-> [sensor_id |-> ids.temp, type |-> "AMBIENT_TEMPERATURE",
                timestamp |-> 0, temperature |-> scaled.temperature]]

----------------------------------------------------------------------------
(* Initial state: a constructed object (the constructor sets no field) in  *)
(* front of a device in some register state.                               *)

Init ==
    /\ \E id \in ChipIds, a \in AccelConfigInit :
          regs = [r \in RegNames |->
                    IF r = "WHO_AM_I" THEN id
                    ELSE IF r = "ACCEL_CONFIG" THEN a
                    ELSE IF r = "PWR_MGMT_1" THEN POST_RESET_VALUE
                    ELSE 0]
    /\ i2c_dev = "null"
    /\ \E g \in Indeterminate :
          /\ ids = [accel |-> g, gyro |-> g, temp |-> g]
          /\ raw = [rawAccX |-> g, rawAccY |-> g, rawAccZ |-> g, rawTemp |-> g,
                    rawGyroX |-> g, rawGyroY |-> g, rawGyroZ |-> g]
          /\ scaled = [accX |-> Rat(g, 1), accY |-> Rat(g, 1), accZ |-> Rat(g, 1),
                       temperature |-> Rat(g, 1), gyroX |-> Rat(g, 1),
                       gyroY |-> Rat(g, 1), gyroZ |-> Rat(g, 1)]
    /\ pc = "idle"
    /\ polls = 0
    /\ busLog = << >>
    /\ last = [op |-> "constructor", arg |-> 0, ret |-> 0]
    /\ prev = [op |-> "none", arg |-> 0]
    /\ everRead = FALSE
    /\ sampled = [raw |-> raw, scaled |-> scaled]
    /\ initBase = << >>
    /\ freshInit = FALSE

----------------------------------------------------------------------------
\* the first thread enters (and, but for begin and read, completes) a call
Called(op, arg, ret) ==
    /\ last' = [op |-> op, arg |-> arg, ret |-> ret]
    /\ prev' = [op |-> last.op,
                arg |-> IF last.op = "setAccelerometerRange" THEN last.arg
                        ELSE 0]

----------------------------------------------------------------------------
(* begin / _init *)

\* i2c_dev->begin() fails: begin returns false
BeginNoAck(sensorID) ==
    /\ pc = "idle"
    /\ i2c_dev' = "unbegun"
    /\ busLog' = << >>
    /\ Called("begin", sensorID, "false")
    /\ freshInit' = FALSE
    /\ UNCHANGED <<regs, ids, raw, scaled, pc, polls, everRead, sampled,
                   initBase>>

\* variant: the identification check is skipped
IdMatches_Always(id) == TRUE

IdMatches(id) == id = MPU6050_DEVICE_ID

\* _init: chip_id.read() != MPU6050_DEVICE_ID, return false
InitIdMismatch(sensorID) ==
    /\ pc = "idle"
    /\ ~IdMatches(regs["WHO_AM_I"])
    /\ i2c_dev' = "ready"
    /\ busLog' = << Rd("WHO_AM_I", regs["WHO_AM_I"]) >>
    /\ Called("begin", sensorID, "false")
    /\ freshInit' = FALSE
    /\ UNCHANGED <<regs, ids, raw, scaled, pc, polls, everRead, sampled,
                   initBase>>

\* _init: id check passed, identifiers stored, reset written, poll entered
InitReset(sensorID) ==
    /\ pc = "idle"
    /\ IdMatches(regs["WHO_AM_I"])
    /\ i2c_dev' = "ready"
    /\ \E g \in Add32(sensorID, 1), t \in Add32(sensorID, 2) :
          ids' = [accel |-> sensorID, gyro |-> g, temp |-> t]
    /\ regs' = [regs EXCEPT !["PWR_MGMT_1"] = RESET_VALUE]
    /\ busLog' = << Rd("WHO_AM_I", regs["WHO_AM_I"]),
                    Wr("PWR_MGMT_1", RESET_VALUE) >>
    /\ pc' = "init_poll"
    /\ polls' = 0
    /\ Called("begin", sensorID, "pending")
    /\ initBase' = <<sensorID>>
    /\ freshInit' = FALSE
    /\ UNCHANGED <<raw, scaled, everRead, sampled>>

\* variant: the loop ends as soon as the reset bit reads clear
PollDone_NotReset(v) == v # RESET_VALUE

PollDone(v) == v = POST_RESET_VALUE

\* while (power_mgmt_1.read() != 0b01000000) delay(10);
InitPollRetry ==
    /\ pc = "init_poll"
    /\ polls < MaxPolls
    /\ ~PollDone(regs["PWR_MGMT_1"])
    /\ busLog' = Append(busLog, Rd("PWR_MGMT_1", regs["PWR_MGMT_1"]))
    /\ polls' = polls + 1
    /\ UNCHANGED <<regs, i2c_dev, ids, raw, scaled, pc, last, prev, everRead,
                   sampled, initBase, freshInit>>

\* variant: the clock source is selected before the configuration
ConfigWrites_ClockFirst ==
    << Wr("PWR_MGMT_1", CLOCK_CONFIG), Wr("SMPLRT_DIV", 0), Wr("CONFIG", 0),
       Wr("GYRO_CONFIG", GYRO_CONFIG_DEFAULT), Wr("ACCEL_CONFIG", 0) >>

ConfigWrites ==
    << Wr("SMPLRT_DIV", 0), Wr("CONFIG", 0),
       Wr("GYRO_CONFIG", GYRO_CONFIG_DEFAULT), Wr("ACCEL_CONFIG", 0),
       Wr("PWR_MGMT_1", CLOCK_CONFIG) >>

RECURSIVE ApplyWrites(_, _)
ApplyWrites(rf, ws) ==
    IF ws = << >> THEN rf
    ELSE ApplyWrites([rf EXCEPT ![Head(ws).reg] = Head(ws).v], Tail(ws))

\* the poll reads the post-reset value; the configuration is written and
\* _init returns true
InitConfigure ==
    /\ pc = "init_poll"
    /\ PollDone(regs["PWR_MGMT_1"])
    /\ busLog' = Append(busLog, Rd("PWR_MGMT_1", regs["PWR_MGMT_1"]))
                     \o ConfigWrites
    /\ regs' = ApplyWrites(regs, ConfigWrites)
    /\ pc' = "idle"
    /\ last' = [last EXCEPT !.ret = "true"]
    /\ prev' = prev
    /\ freshInit' = TRUE
    /\ UNCHANGED <<i2c_dev, ids, raw, scaled, polls, everRead, sampled,
                   initBase>>

----------------------------------------------------------------------------
(* The device *)

ResetFile(pwr) ==
    [r \in RegNames |->
        IF r = "WHO_AM_I" THEN regs[r]
        ELSE IF r = "PWR_MGMT_1" THEN pwr ELSE 0]

\* the chip completes the reset asked for: every register to its default,
\* PWR_MGMT_1 to 0x40 (sleep)
DeviceReset ==
    /\ regs["PWR_MGMT_1"] = RESET_VALUE
    /\ regs' = ResetFile(POST_RESET_VALUE)
    /\ UNCHANGED <<i2c_dev, ids, raw, scaled, pc, polls, busLog, last, prev,
                   everRead, sampled, initBase, freshInit>>

\* a chip whose PWR_MGMT_1 comes out of reset with another value (0x01),
\* which the poll never accepts
OTHER_POST_RESET_VALUE == 1

DeviceResetOther ==
    /\ regs["PWR_MGMT_1"] = RESET_VALUE
    /\ regs' = ResetFile(OTHER_POST_RESET_VALUE)
    /\ UNCHANGED <<i2c_dev, ids, raw, scaled, pc, polls, busLog, last, prev,
                   everRead, sampled, initBase, freshInit>>

----------------------------------------------------------------------------
(* Range *)

GetRange == RangeField(regs["ACCEL_CONFIG"])

GetAccelerometerRange ==
    /\ pc = "idle"
    /\ i2c_dev = "ready"
    /\ busLog' = << Rd("ACCEL_CONFIG", regs["ACCEL_CONFIG"]) >>
    /\ Called("getAccelerometerRange", 0, GetRange)
    /\ UNCHANGED <<regs, i2c_dev, ids, raw, scaled, pc, polls, everRead,
                   sampled, initBase, freshInit>>

\* variant: the field is written at bit 0
SetRangeByte_Unshifted(val, new_range) ==
    BitsWrite(val, new_range, RANGE_BITS, 0)

\* variant: the whole byte is overwritten with the shifted field
SetRangeByte_WholeByte(val, new_range) == new_range * Pow2(RANGE_SHIFT)

\* accel_range.write(new_range): read the byte, replace the field, write it
SetRangeByte(val, new_range) ==
    BitsWrite(val, new_range, RANGE_BITS, RANGE_SHIFT)

SetRangeBus(new_range) ==
    << Rd("ACCEL_CONFIG", regs["ACCEL_CONFIG"]),
       Wr("ACCEL_CONFIG", SetRangeByte(regs["ACCEL_CONFIG"], new_range)) >>

SetAccelerometerRange(new_range) ==
    /\ pc = "idle"
    /\ i2c_dev = "ready"
    /\ busLog' = SetRangeBus(new_range)
    /\ regs' = ApplyWrites(regs, <<SetRangeBus(new_range)[2]>>)
    /\ Called("setAccelerometerRange", new_range, 0)
    /\ freshInit' = FALSE
    /\ UNCHANGED <<i2c_dev, ids, raw, scaled, pc, polls, everRead, sampled,
                   initBase>>

----------------------------------------------------------------------------
(* read *)

\* data_reg.read(buffer, 14) and the decoding of the seven raw fields
ReadBurst(buffer) ==
    /\ pc = "idle"
    /\ i2c_dev = "ready"
    /\ raw' = Decode(buffer)
    /\ busLog' = << Burst(RangeField(regs["ACCEL_CONFIG"])) >>
    /\ pc' = "read_scale"
    /\ UNCHANGED <<regs, i2c_dev, ids, scaled, polls, last, prev, everRead,
                   sampled, initBase, freshInit>>

\* variant: the range is the one in effect at the burst read
ReadRange_AtBurst == busLog[1].cap

\* mpu6050_range_t range = getAccelerometerRange(): the register as it is
\* when this second transaction happens
ReadRange == GetRange

\* range = getAccelerometerRange(); scale lookup; the scaled sample
ReadScale ==
    /\ pc = "read_scale"
    /\ LET range == ReadRange
           scale == ScaleOf(range)
       IN  /\ scaled' = Scale(raw, scale)
           /\ Called("read", 0, scale)
    /\ busLog' = Append(busLog, Rd("ACCEL_CONFIG", regs["ACCEL_CONFIG"]))
    /\ pc' = "idle"
    /\ everRead' = TRUE
    /\ sampled' = [raw |-> raw, scaled |-> scaled']
    /\ UNCHANGED <<regs, i2c_dev, ids, raw, polls, initBase, freshInit>>

----------------------------------------------------------------------------
(* getSensor / getEvent *)

GetSensor ==
    /\ pc = "idle"
    /\ busLog' = << >>
    /\ Called("getSensor", 0, SensorRecords)
    /\ UNCHANGED <<regs, i2c_dev, ids, raw, scaled, pc, polls, everRead,
                   sampled, initBase, freshInit>>

EventBus == << >>

GetEvent ==
    /\ pc = "idle"
    /\ busLog' = EventBus
    /\ Called("getEvent", 0, EventRecords)
    /\ UNCHANGED <<regs, i2c_dev, ids, raw, scaled, pc, polls, everRead,
                   sampled, initBase, freshInit>>

----------------------------------------------------------------------------
(* A second thread of control calling setAccelerometerRange on the same    *)
(* object while the first thread is inside read(), between its two bus     *)
(* transactions. A call that falls between two calls of the first thread   *)
(* acts on the device as the first thread's own SetAccelerometerRange.     *)

OtherSetAccelerometerRange(new_range) ==
    /\ i2c_dev = "ready"
    /\ pc = "read_scale"
    /\ regs' = ApplyWrites(regs, <<SetRangeBus(new_range)[2]>>)
    /\ freshInit' = FALSE
    /\ UNCHANGED <<i2c_dev, ids, raw, scaled, pc, polls, busLog, last, prev,
                   everRead, sampled, initBase>>

----------------------------------------------------------------------------

Next ==
    \/ \E s \in SensorIDs : BeginNoAck(s)
    \/ \E s \in SensorIDs : InitIdMismatch(s)
    \/ \E s \in SensorIDs : InitReset(s)
    \/ InitPollRetry
    \/ InitConfigure
    \/ DeviceReset
    \/ DeviceResetOther
    \/ GetAccelerometerRange
    \/ \E r \in Ranges : SetAccelerometerRange(r)
    \/ \E b \in Buffers : ReadBurst(b)
    \/ ReadScale
    \/ GetSensor
    \/ GetEvent

Spec == Init /\ [][Next]_vars

NextRace ==
    \/ Next
    \/ \E r \in Ranges : OtherSetAccelerometerRange(r)

SpecRace == Init /\ [][NextRace]_vars

----------------------------------------------------------------------------
(* Properties *)

\* C1: setAccelerometerRange(r) directly followed by getAccelerometerRange()
\* returns r, for each of the four ranges.
C1_SetThenGet ==
    (last.op = "getAccelerometerRange" /\ prev.op = "setAccelerometerRange")
        => last.ret = prev.arg

C1_Witness ==
    /\ last.op = "getAccelerometerRange"
    /\ prev.op = "setAccelerometerRange"
    /\ prev.arg = MPU6050_RANGE_8_G
    /\ last.ret = MPU6050_RANGE_8_G
    /\ initBase # << >>
    /\ regs["ACCEL_CONFIG"] = 16

\* C2: a setAccelerometerRange step changes bits 3 and 4 of ACCEL_CONFIG
\* only: the other six bits of the byte and every other register keep their
\* value, and the step writes no other register.
C2_SetFrame ==
    [][ (pc = "idle" /\ pc' = "idle" /\ last'.op = "setAccelerometerRange")
        => /\ \A r \in RegNames \ {"ACCEL_CONFIG"} : regs'[r] = regs[r]
           /\ regs'["ACCEL_CONFIG"] % 8 = regs["ACCEL_CONFIG"] % 8
           /\ regs'["ACCEL_CONFIG"] \div 32 = regs["ACCEL_CONFIG"] \div 32
           /\ (regs'["ACCEL_CONFIG"] \div 8) % 4 = last'.arg
           /\ \A i \in 1..Len(busLog') :
                 busLog'[i].k = "W" => busLog'[i].reg = "ACCEL_CONFIG" ]_vars

C2_Witness ==
    /\ last.op = "setAccelerometerRange"
    /\ last.arg = MPU6050_RANGE_4_G
    /\ regs["ACCEL_CONFIG"] = 239

\* C3: when the WHO_AM_I read returns another value than the device id,
\* begin returns false having done that one read and nothing else: no
\* register write, no poll of PWR_MGMT_1.
C3_IdMismatchFails ==
    (/\ last.op = "begin"
     /\ Len(busLog) >= 1
     /\ busLog[1].reg = "WHO_AM_I"
     /\ busLog[1].v # MPU6050_DEVICE_ID)
        => /\ Len(busLog) = 1
           /\ busLog[1].k = "R"
           /\ pc = "idle"
           /\ last.ret = "false"

C3_Witness ==
    /\ last.op = "begin"
    /\ last.ret = "false"
    /\ busLog = << Rd("WHO_AM_I", 112) >>
    /\ regs["ACCEL_CONFIG"] = 231

\* C4: the divisor read() applied to the three raw acceleration values is
\* the table entry of the range held in ACCEL_CONFIG (16384, 8192, 4096,
\* 2048 for 2, 4, 8, 16 g); after _init with no range set since, the range
\* is 2 g and the divisor 16384.
C4_DivisorTable ==
    LET r == (regs["ACCEL_CONFIG"] \div 8) % 4
        div == CASE r = MPU6050_RANGE_2_G -> 16384
                 [] r = MPU6050_RANGE_4_G -> 8192
                 [] r = MPU6050_RANGE_8_G -> 4096
                 [] r = MPU6050_RANGE_16_G -> 2048
        afterRead == last.op = "read" /\ pc = "idle"
    IN  /\ afterRead =>
              /\ scaled.accX = [n |-> raw.rawAccX, d |-> div]
              /\ scaled.accY = [n |-> raw.rawAccY, d |-> div]
              /\ scaled.accZ = [n |-> raw.rawAccZ, d |-> div]
        /\ freshInit =>
              /\ r = MPU6050_RANGE_2_G
              /\ afterRead => scaled.accX.d = 16384

C4_Witness ==
    /\ last.op = "read"
    /\ pc = "idle"
    /\ prev.op = "setAccelerometerRange"
    /\ prev.arg = MPU6050_RANGE_16_G
    /\ initBase # << >>
    /\ scaled.accX = [n |-> 16384, d |-> 2048]

\* C5: getEvent on an object on which read() never completed reports zero
\* for every channel and does no bus transaction.
C5_ZeroBeforeRead ==
    (last.op = "getEvent" /\ ~everRead)
        => /\ busLog = << >>
           /\ last.ret.accel.x.n = 0
           /\ last.ret.accel.y.n = 0
           /\ last.ret.accel.z.n = 0
           /\ last.ret.gyro.x.n = 0
           /\ last.ret.gyro.y.n = 0
           /\ last.ret.gyro.z.n = 0
           /\ last.ret.temp.temperature.n = 0

\* C6: getEvent does no bus transaction, leaves the cached raw and scaled
\* sample as the last read() stored them, and reports that scaled sample:
\* acceleration times 9.80665, gyro and temperature as they are, whatever
\* the device holds by now.
C6_EventFromCache ==
    (last.op = "getEvent" /\ pc = "idle")
        => LET s == sampled.scaled
               g(x) == [n |-> x.n, d |-> x.d, gn |-> 980665, gd |-> 100000]
           IN  /\ busLog = << >>
               /\ raw = sampled.raw
               /\ scaled = s
               /\ last.ret.accel.x = g(s.accX)
               /\ last.ret.accel.y = g(s.accY)
               /\ last.ret.accel.z = g(s.accZ)
               /\ last.ret.gyro.x = s.gyroX
               /\ last.ret.gyro.y = s.gyroY
               /\ last.ret.gyro.z = s.gyroZ
               /\ last.ret.temp.temperature = s.temperature

C6_Witness ==
    /\ last.op = "getEvent"
    /\ prev.op = "setAccelerometerRange"
    /\ prev.arg = MPU6050_RANGE_16_G
    /\ everRead
    /\ scaled.accX = [n |-> 16384, d |-> 16384]
    /\ last.ret.accel.x = [n |-> 16384, d |-> 16384, gn |-> 980665,
                           gd |-> 100000]

\* C7 as stated: after a successful _init with base identifier b, every
\* record getSensor and getEvent produce carries b, b + 1 and b + 2, for
\* every b.
C7_IdsAnyBase ==
    (initBase # << >> /\ last.op \in {"getSensor", "getEvent"})
        => LET b == initBase[1]
           IN  /\ last.ret.accel.sensor_id = b
               /\ b <= INT32_MAX - 1 /\ last.ret.gyro.sensor_id = b + 1
               /\ b <= INT32_MAX - 2 /\ last.ret.temp.sensor_id = b + 2

\* C7 as amended: for a base identifier b with b + 2 within int32_t, after
\* an _init that passed the id check the channels carry b, b + 1 and b + 2
\* in the fields and in every record getSensor and getEvent produce, until
\* the next _init.
C7_IdsNoOverflow ==
    (initBase # << >> /\ initBase[1] <= INT32_MAX - 2)
        => LET b == initBase[1]
               carries(rec) == /\ rec.accel.sensor_id = b
                               /\ rec.gyro.sensor_id = b + 1
                               /\ rec.temp.sensor_id = b + 2
           IN  /\ ids = [accel |-> b, gyro |-> b + 1, temp |-> b + 2]
               /\ last.op \in {"getSensor", "getEvent"} => carries(last.ret)

C7_Witness ==
    /\ initBase = <<10>>
    /\ last.op = "getEvent"
    /\ prev.op = "getSensor"
    /\ last.ret.accel.sensor_id = 10
    /\ last.ret.gyro.sensor_id = 11
    /\ last.ret.temp.sensor_id = 12

\* C8: a begin that passed the id check writes 0x80 to PWR_MGMT_1 first,
\* then nothing until a read of PWR_MGMT_1 returned 0x40, then SMPLRT_DIV 0,
\* CONFIG 0, GYRO_CONFIG 0x08, ACCEL_CONFIG 0 in that order, and 0x01 to
\* PWR_MGMT_1 last, and returns true.
C8_InitWriteOrder ==
    (/\ last.op = "begin"
     /\ Len(busLog) >= 1
     /\ busLog[1] = Rd("WHO_AM_I", MPU6050_DEVICE_ID))
        => LET n == Len(busLog)
               retry(i) == /\ busLog[i].k = "R"
                           /\ busLog[i].reg = "PWR_MGMT_1"
                           /\ busLog[i].v # 64
           IN  /\ n >= 2
               /\ busLog[2] = Wr("PWR_MGMT_1", 128)
               /\ pc \in {"init_poll", "idle"}
               /\ pc = "init_poll" =>
                     /\ \A i \in 3..n : retry(i)
                     /\ last.ret = "pending"
               /\ pc = "idle" =>
                     /\ n >= 8
                     /\ \A i \in 3..(n - 6) : retry(i)
                     /\ busLog[n - 5] = Rd("PWR_MGMT_1", 64)
                     /\ busLog[n - 4] = Wr("SMPLRT_DIV", 0)
                     /\ busLog[n - 3] = Wr("CONFIG", 0)
                     /\ busLog[n - 2] = Wr("GYRO_CONFIG", 8)
                     /\ busLog[n - 1] = Wr("ACCEL_CONFIG", 0)
                     /\ busLog[n] = Wr("PWR_MGMT_1", 1)
                     /\ last.ret = "true"

C8_Witness ==
    /\ last.op = "begin"
    /\ last.ret = "true"
    /\ pc = "idle"
    /\ Len(busLog) = 9
    /\ busLog[3] = Rd("PWR_MGMT_1", 128)
    /\ busLog[4] = Rd("PWR_MGMT_1", 64)

\* C9: inside the reset-confirmation poll, _init leaves the loop exactly on
\* a read of PWR_MGMT_1 that returns 0x40, and then returns true; any other
\* value read keeps it in the loop with nothing returned, so it never
\* reports failure.
C9_PollExit ==
    [][ pc = "init_poll"
        => /\ pc' # "init_poll" =>
                 /\ regs["PWR_MGMT_1"] = 64
                 /\ pc' = "idle"
                 /\ last'.ret = "true"
           /\ (busLog' # busLog /\ regs["PWR_MGMT_1"] # 64) =>
                 /\ pc' = "init_poll"
                 /\ last'.ret = "pending"
           /\ (busLog' # busLog /\ regs["PWR_MGMT_1"] = 64) =>
                 pc' = "idle" ]_vars

C9_Witness ==
    /\ pc = "init_poll"
    /\ polls >= 1
    /\ regs["PWR_MGMT_1"] = 1
    /\ busLog[Len(busLog)] = Rd("PWR_MGMT_1", 1)
    /\ last.ret = "pending"

\* C10: read() does two bus transactions, the 14-byte burst read and then
\* the range read, and scales with the divisor of the range found by the
\* second one, also when another thread changed the range in between.
C10_ReadNotAtomic ==
    (last.op = "read" /\ pc = "idle")
        => /\ Len(busLog) = 2
           /\ busLog[1].k = "R" /\ busLog[1].reg = "ACCEL_OUT"
           /\ busLog[1].n = 14
           /\ busLog[2].k = "R" /\ busLog[2].reg = "ACCEL_CONFIG"
           /\ LET r2 == (busLog[2].v \div 8) % 4
                  div == CASE r2 = MPU6050_RANGE_2_G -> 16384
                           [] r2 = MPU6050_RANGE_4_G -> 8192
                           [] r2 = MPU6050_RANGE_8_G -> 4096
                           [] r2 = MPU6050_RANGE_16_G -> 2048
              IN  /\ scaled.accX = [n |-> raw.rawAccX, d |-> div]
                  /\ scaled.accY = [n |-> raw.rawAccY, d |-> div]
                  /\ scaled.accZ = [n |-> raw.rawAccZ, d |-> div]

\* the raw data was captured under 2 g, the range read found 16 g: 1 g is
\* reported as 8 g
C10_Witness ==
    /\ last.op = "read"
    /\ pc = "idle"
    /\ busLog[1].cap = MPU6050_RANGE_2_G
    /\ (busLog[2].v \div 8) % 4 = MPU6050_RANGE_16_G
    /\ scaled.accX = [n |-> 16384, d |-> 2048]

====
